---- MODULE Spec2Model ----
(***************************************************************************)
(* GeminiProvider.execute of execution-gemini, as a state machine.        *)
(*                                                                         *)
(* The repository holds two copies of the provider:                       *)
(*   src/src/index.ts      - execute without key-shape validation and     *)
(*                           without a catch around the remote call;      *)
(*   src/unnamed/part_002  - the same execute, with redactor.validateKey  *)
(*                           before the call and createSafeError in a     *)
(*                           catch around it.                              *)
(* The variable build says which copy runs.  Everything between the key   *)
(* check and the outbound call is line for line the same in both copies   *)
(* and is modelled once, from src/src/index.ts.                            *)
(*                                                                         *)
(* JavaScript strings are sequences of one-character strings, so that     *)
(* trim, JSON.stringify, the key regular expression and the redaction     *)
(* are computed character by character.                                    *)
(***************************************************************************)
EXTENDS Integers, Sequences, FiniteSets, TLC

\* ------------------------------------------------------------------------
\* JavaScript values
\* ------------------------------------------------------------------------

\* an optional string: options.apiKey, process.env.GEMINI_API_KEY,
\* the systemInstruction given to getGenerativeModel
Undefined == [tag |-> "undefined", str |-> <<>>]
Str(s) == [tag |-> "string", str |-> s]

\* JavaScript truthiness of an optional string: undefined and "" are falsy
Truthy(v) == v.tag = "string" /\ v.str # <<>>

\* Message.content: string | string[] | null   (index.ts line 17)
TextContent(s) == [tag |-> "string", str |-> s, arr |-> <<>>]
ArrayContent(a) == [tag |-> "array", str |-> <<>>, arr |-> a]
NullContent == [tag |-> "null", str |-> <<>>, arr |-> <<>>]

Msg(r, c) == [role |-> r, content |-> c]

\* ------------------------------------------------------------------------
\* String helpers
\* ------------------------------------------------------------------------

IsPrefix(p, s) == Len(p) <= Len(s) /\ SubSeq(s, 1, Len(p)) = p

Rep(c, n) == [i \in 1..n |-> c]

\* String.prototype.trim: strips leading and trailing white space
WhiteSpace == {" ", "\n", "\t", "\r"}

Trim(s) ==
    LET keep == {i \in 1..Len(s) : s[i] \notin WhiteSpace}
    IN  IF keep = {} THEN <<>>
        ELSE SubSeq(s, CHOOSE i \in keep : \A j \in keep : i <= j,
                       CHOOSE i \in keep : \A j \in keep : i >= j)

\* JSON.stringify of a string: quoted, with ", \ and line feed escaped
RECURSIVE Escape(_)
Escape(s) ==
    IF s = <<>> THEN <<>>
    ELSE (CASE Head(s) = "\"" -> <<"\\", "\"">>
            [] Head(s) = "\\" -> <<"\\", "\\">>
            [] Head(s) = "\n" -> <<"\\", "n">>
            [] OTHER -> <<Head(s)>>) \o Escape(Tail(s))

Quote(s) == <<"\"">> \o Escape(s) \o <<"\"">>

RECURSIVE JoinQuoted(_)
JoinQuoted(a) ==
    IF a = <<>> THEN <<>>
    ELSE IF Len(a) = 1 THEN Quote(a[1])
    ELSE Quote(a[1]) \o <<",">> \o JoinQuoted(Tail(a))

\* JSON.stringify(msg.content) for the two non-string shapes of content
JSONstringify(c) ==
    IF c.tag = "null" THEN <<"n", "u", "l", "l">>
    ELSE IF c.tag = "array" THEN <<"[">> \o JoinQuoted(c.arr) \o <<"]">>
    ELSE Quote(c.str)

\* typeof msg.content === 'string' ? msg.content : JSON.stringify(msg.content)
ContentText(c) == IF c.tag = "string" THEN c.str ELSE JSONstringify(c)

\* ------------------------------------------------------------------------
\* The key shape registered with the redactor (part_002 lines 19-27)
\* ------------------------------------------------------------------------

KeyPrefix == <<"A", "I", "z", "a">>
KeySuffixLen == 35

KeyAlphabet ==
    {"a", "b", "c", "d", "e", "f", "g", "h", "i", "j", "k", "l", "m",
     "n", "o", "p", "q", "r", "s", "t", "u", "v", "w", "x", "y", "z",
     "A", "B", "C", "D", "E", "F", "G", "H", "I", "J", "K", "L", "M",
     "N", "O", "P", "Q", "R", "S", "T", "U", "V", "W", "X", "Y", "Z",
     "0", "1", "2", "3", "4", "5", "6", "7", "8", "9", "_", "-"}

\* the pattern /AIza[a-zA-Z0-9_-]{35}/ matching s at position i
MatchesAt(s, i) ==
    /\ i + Len(KeyPrefix) + KeySuffixLen - 1 <= Len(s)
    /\ SubSeq(s, i, i + Len(KeyPrefix) - 1) = KeyPrefix
    /\ \A j \in (i + Len(KeyPrefix))..(i + Len(KeyPrefix) + KeySuffixLen - 1) :
          s[j] \in KeyAlphabet

\* validator: (key) => /^AIza[a-zA-Z0-9_-]{35}$/.test(key)
validator(key) ==
    Len(key) = Len(KeyPrefix) + KeySuffixLen /\ MatchesAt(key, 1)

\* redactor.validateKey(apiKey, 'gemini').valid: the registered validator
validateKey(key) == [valid |-> validator(key)]

\* ------------------------------------------------------------------------
\* Error sanitising (part_002 lines 29-46 and 245-249)
\* ------------------------------------------------------------------------

RedactionText == <<"[", "R", "E", "D", "A", "C", "T", "E", "D", "]">>

\* every match of the customPatterns entry /AIza[a-zA-Z0-9_-]{35}/g,
\* leftmost first and not overlapping, replaced by redactionText
RECURSIVE RedactFrom(_, _)
RedactFrom(s, i) ==
    IF i > Len(s) THEN <<>>
    ELSE IF MatchesAt(s, i)
         THEN RedactionText \o RedactFrom(s, i + Len(KeyPrefix) + KeySuffixLen)
         ELSE <<s[i]>> \o RedactFrom(s, i + 1)

Redact(s) == RedactFrom(s, 1)

\* the stack of an Error starts with its name and message
StackOf(message) ==
    <<"E", "r", "r", "o", "r", ":", " ">> \o message \o <<"\n", " ", "a", "t">>

NewError(message) == [message |-> message, stack |-> StackOf(message)]

NoError == [message |-> <<>>, stack |-> <<>>]

\* createSafeError(error, { provider: 'gemini' }) of @theunwalked/spotclean,
\* as configured in lines 30-46: the message passes the secret guard.  The
\* stack passes it when sanitizeStackTraces is set, which line 34 sets in
\* production only; otherwise the configuration leaves open whether the
\* stack is cleaned, and both outcomes are possible results.
createSafeError(error, sanitizeStackTraces) ==
    {[message |-> Redact(error.message), stack |-> st] :
        st \in IF sanitizeStackTraces
               THEN {Redact(error.stack)}
               ELSE {Redact(error.stack), error.stack}}

\* ------------------------------------------------------------------------
\* The steps of execute between the key check and the outbound call
\* (src/src/index.ts lines 82-183; part_002 lines 119-230 are the same code)
\* ------------------------------------------------------------------------

\* mutant of ResolveApiKey: options.apiKey ?? process.env.GEMINI_API_KEY
ResolveApiKey_Nullish(opt, env) == IF opt.tag = "undefined" THEN env ELSE opt

\* const apiKey = options.apiKey || process.env.GEMINI_API_KEY
ResolveApiKey(opt, env) == IF Truthy(opt) THEN opt ELSE env

\* mutant of MissingApiKey: if (apiKey === '') throw ...
MissingApiKey_OnlyEmptyString(key) == key.tag = "string" /\ key.str = <<>>

\* if (!apiKey) throw ...
MissingApiKey(key) == ~Truthy(key)

RequiredMessage ==
    <<"G", "e", "m", "i", "n", "i", " ", "A", "P", "I", " ", "k", "e", "y",
      " ", "i", "s", " ", "r", "e", "q", "u", "i", "r", "e", "d">>

\* the message of the error thrown at the key check, in each copy
MissingKeyMessage(b) ==
    IF b = "unguarded" THEN RequiredMessage
    ELSE RequiredMessage \o
         <<".", " ", "S", "e", "t", " ", "G", "E", "M", "I", "N", "I", "_",
           "A", "P", "I", "_", "K", "E", "Y", " ", "e", "n", "v", "i", "r",
           "o", "n", "m", "e", "n", "t", " ", "v", "a", "r", "i", "a", "b",
           "l", "e", ".">>

InvalidKeyMessage ==
    <<"I", "n", "v", "a", "l", "i", "d", " ", "G", "e", "m", "i", "n", "i",
      " ", "A", "P", "I", " ", "k", "e", "y", " ", "f", "o", "r", "m", "a",
      "t">>

IsPreamble(msg) == msg.role = "system" \/ msg.role = "developer"

\* the first loop over request.messages: systemInstruction += content + '\n\n'
RECURSIVE SystemInstruction(_)
SystemInstruction(msgs) ==
    IF msgs = <<>> THEN <<>>
    ELSE (IF IsPreamble(Head(msgs))
          THEN ContentText(Head(msgs).content) \o <<"\n", "\n">>
          ELSE <<>>) \o SystemInstruction(Tail(msgs))

\* systemInstruction ? systemInstruction.trim() : undefined
SystemInstructionOption(si) == IF si # <<>> THEN Str(Trim(si)) ELSE Undefined

\* mutant of HistoryRole: msg.role === 'user' ? 'user' : 'model'
HistoryRole_OnlyUserIsUser(role) == IF role = "user" THEN "user" ELSE "model"

\* role: msg.role === 'assistant' ? 'model' : 'user'
HistoryRole(role) == IF role = "assistant" THEN "model" ELSE "user"

\* the second loop: one {role, parts: [{text}]} entry per message that is
\* neither system nor developer
RECURSIVE ChatHistory(_)
ChatHistory(msgs) ==
    IF msgs = <<>> THEN <<>>
    ELSE (IF IsPreamble(Head(msgs)) THEN <<>>
          ELSE <<[role |-> HistoryRole(Head(msgs).role),
                  text |-> ContentText(Head(msgs).content)]>>)
         \o ChatHistory(Tail(msgs))

\* the second loop: lastUserMessage is the content of the last 'user' message,
\* '' when there is none
RECURSIVE LastUserMessage(_)
LastUserMessage(msgs) ==
    IF msgs = <<>> THEN <<>>
    ELSE IF msgs[Len(msgs)].role = "user"
         THEN ContentText(msgs[Len(msgs)].content)
         ELSE LastUserMessage(SubSeq(msgs, 1, Len(msgs) - 1))

\* x || fallback on a string: '' is falsy
OrElse(s, fallback) == IF s # <<>> THEN s ELSE fallback

\* mutant of Dispatch: generateContent is called before the chat path is taken
Dispatch_GenerateThenChat(history, lastUser) ==
    IF Len(history) > 1
    THEN [chats |-> <<[history |-> SubSeq(history, 1, Len(history) - 1)]>>,
          calls |-> <<[method |-> "generateContent",
                       text |-> OrElse(lastUser, <<" ">>)],
                      [method |-> "sendMessage",
                       text |-> OrElse(history[Len(history)].text, <<>>)]>>]
    ELSE [chats |-> <<>>,
          calls |-> <<[method |-> "generateContent",
                       text |-> OrElse(lastUser, <<" ">>)]>>]

\* mutant of Dispatch: the final turn is read but not popped off the history
Dispatch_HistoryKeepsLast(history, lastUser) ==
    IF Len(history) > 1
    THEN [chats |-> <<[history |-> history]>>,
          calls |-> <<[method |-> "sendMessage",
                       text |-> OrElse(history[Len(history)].text, <<>>)]>>]
    ELSE [chats |-> <<>>,
          calls |-> <<[method |-> "generateContent",
                       text |-> OrElse(lastUser, <<" ">>)]>>]

\* mutant of Dispatch: generateContent(lastUserMessage || '')
Dispatch_EmptyFallback(history, lastUser) ==
    IF Len(history) > 1
    THEN [chats |-> <<[history |-> SubSeq(history, 1, Len(history) - 1)]>>,
          calls |-> <<[method |-> "sendMessage",
                       text |-> OrElse(history[Len(history)].text, <<>>)]>>]
    ELSE [chats |-> <<>>,
          calls |-> <<[method |-> "generateContent",
                       text |-> OrElse(lastUser, <<>>)]>>]

\* lines 173-183: the chat sessions opened and the outbound calls made
Dispatch(history, lastUser) ==
    IF Len(history) > 1
    THEN [chats |-> <<[history |-> SubSeq(history, 1, Len(history) - 1)]>>,
          calls |-> <<[method |-> "sendMessage",
                       text |-> OrElse(history[Len(history)].text, <<>>)]>>]
    ELSE [chats |-> <<>>,
          calls |-> <<[method |-> "generateContent",
                       text |-> OrElse(lastUser, <<" ">>)]>>]

\* ------------------------------------------------------------------------
\* Structured output: mapSchema (src/src/index.ts lines 89-129)
\* ------------------------------------------------------------------------

\* A schema node is undefined or an object.  An object is a function from
\* the keys it has to their values: 'type' is a string or an array of
\* strings (TextContent, ArrayContent), 'properties' a function from property
\* names to nodes, 'items' a node; any other key holds a string.
UndefinedNode == [tag |-> "undefined", fields |-> <<>>]
Obj(f) == [tag |-> "object", fields |-> f]

\* { ...o, [k]: v }
With(o, k, v) == [j \in DOMAIN o \cup {k} |-> IF j = k THEN v ELSE o[j]]

\* String.prototype.toUpperCase, on the letters a-z
UpperOf ==
    [a |-> "A", b |-> "B", c |-> "C", d |-> "D", e |-> "E", f |-> "F",
     g |-> "G", h |-> "H", i |-> "I", j |-> "J", k |-> "K", l |-> "L",
     m |-> "M", n |-> "N", o |-> "O", p |-> "P", q |-> "Q", r |-> "R",
     s |-> "S", t |-> "T", u |-> "U", v |-> "V", w |-> "W", x |-> "X",
     y |-> "Y", z |-> "Z"]

toUpperCase(s) ==
    [i \in 1..Len(s) |-> IF s[i] \in DOMAIN UpperOf THEN UpperOf[s[i]] ELSE s[i]]

\* lines 103-108: a string type is upper-cased, any other type is kept
MapType(t) == IF t.tag = "string" THEN TextContent(toUpperCase(t.str)) ELSE t

\* mutant of mapSchema: items is copied, not translated
RECURSIVE mapSchema_ItemsNotTranslated(_)
mapSchema_ItemsNotTranslated(s) ==
    IF s.tag = "undefined" THEN UndefinedNode
    ELSE LET o == s.fields
             typed == IF "type" \in DOMAIN o
                      THEN With(o, "type", MapType(o["type"]))
                      ELSE o
             mapped == IF "properties" \in DOMAIN typed
                       THEN With(typed, "properties",
                                [k \in DOMAIN typed["properties"] |->
                                    mapSchema_ItemsNotTranslated(typed["properties"][k])])
                       ELSE typed
         IN  Obj([k \in DOMAIN mapped \ {"additionalProperties", "$schema"} |->
                    mapped[k]])

\* const mapSchema = (s) => ...: lines 98-126
RECURSIVE mapSchema(_)
mapSchema(s) ==
    IF s.tag = "undefined" THEN UndefinedNode
    ELSE LET o == s.fields
             typed == IF "type" \in DOMAIN o
                      THEN With(o, "type", MapType(o["type"]))
                      ELSE o
             mapped == IF "properties" \in DOMAIN typed
                       THEN With(typed, "properties",
                                [k \in DOMAIN typed["properties"] |->
                                    mapSchema(typed["properties"][k])])
                       ELSE typed
             itemed == IF "items" \in DOMAIN mapped
                          /\ mapped["items"].tag # "undefined"
                       THEN With(mapped, "items", mapSchema(mapped["items"]))
                       ELSE mapped
         IN  Obj([k \in DOMAIN itemed \ {"additionalProperties", "$schema"} |->
                    itemed[k]])

\* request.responseFormat: absent, or { type, json_schema: { schema } }
NoResponseFormat == [type |-> "absent", schema |-> UndefinedNode]
ResponseFormat(t, schema) == [type |-> t, schema |-> schema]

\* lines 90-129: generationConfig is {} unless a JSON schema is asked for
GenerationConfig(format) ==
    IF format.type = "json_schema"
    THEN [responseMimeType |-> "application/json",
          hasResponseSchema |-> TRUE,
          responseSchema |-> mapSchema(format.schema)]
    ELSE [responseMimeType |-> "absent",
          hasResponseSchema |-> FALSE,
          responseSchema |-> UndefinedNode]

\* ------------------------------------------------------------------------
\* supportsModel (src/src/index.ts lines 70-73)
\* ------------------------------------------------------------------------

FamilyPrefix == <<"g", "e", "m", "i", "n", "i">>

\* mutant of supportsModel: model.includes('gemini')
supportsModel_Includes(m) ==
    IF ~Truthy(m) THEN FALSE
    ELSE \E i \in 1..Len(m.str) :
            IsPrefix(FamilyPrefix, SubSeq(m.str, i, Len(m.str)))

\* if (!model) return false; return model.startsWith('gemini')
supportsModel(m) == IF ~Truthy(m) THEN FALSE ELSE IsPrefix(FamilyPrefix, m.str)

\* ------------------------------------------------------------------------
\* Inputs
\* ------------------------------------------------------------------------

MaxMessages == 3

Builds == {"unguarded", "guarded"}

GoodKey == KeyPrefix \o Rep("k", 32) \o <<"9", "_", "-">>
EnvGoodKey == KeyPrefix \o Rep("E", 35)
WrongPrefixKey == <<"B", "I", "z", "a">> \o Rep("k", 35)
TooShortKey == KeyPrefix \o Rep("k", 34)
TooLongKey == KeyPrefix \o Rep("k", 36)
BadCharKey == KeyPrefix \o Rep("k", 34) \o <<"!">>

\* options.apiKey: absent, '', or a string
OptionKeys ==
    {Undefined, Str(<<>>), Str(GoodKey), Str(WrongPrefixKey),
     Str(TooShortKey), Str(BadCharKey)}

\* process.env.GEMINI_API_KEY: unset, or a string
EnvKeys == {Undefined, Str(<<>>), Str(EnvGoodKey), Str(TooLongKey)}

MessagePool ==
    {Msg("system", TextContent(<<"S">>)),
     Msg("system", TextContent(<<>>)),
     Msg("developer", TextContent(<<" ">>)),
     Msg("developer", ArrayContent(<<(<<"D">>)>>)),
     Msg("user", TextContent(<<"U", "1">>)),
     Msg("user", TextContent(<<>>)),
     Msg("user", NullContent),
     Msg("assistant", TextContent(<<"A", "1">>)),
     Msg("tool", ArrayContent(<<(<<"T">>), (<<"\"">>)>>))}

\* the two requests the specification gives as examples
ExampleRequests ==
    {<<Msg("system", TextContent(<<"S">>)),
       Msg("user", TextContent(<<"U", "1">>)),
       Msg("assistant", TextContent(<<"A", "1">>)),
       Msg("user", TextContent(<<"U", "2">>))>>,
     <<Msg("user", TextContent(<<"H", "e", "l", "l", "o">>))>>}

Requests ==
    UNION {[1..n -> MessagePool] : n \in 0..MaxMessages} \cup ExampleRequests

MaxDepth == 2

TypeString == TextContent(<<"s", "t", "r", "i", "n", "g">>)
TypeObject == TextContent(<<"o", "b", "j", "e", "c", "t">>)
TypeArray == TextContent(<<"a", "r", "r", "a", "y">>)
TypeUnion == ArrayContent(<<(<<"s", "t", "r", "i", "n", "g">>), (<<"n", "u", "l", "l">>)>>)

\* the keys a node has besides properties and items
OwnKeys ==
    {[type |-> TypeString],
     [type |-> TypeObject, additionalProperties |-> <<"f">>, required |-> <<"x">>],
     [type |-> TypeArray, description |-> <<"d">>] @@ ("$schema" :> <<"u">>),
     [type |-> TypeUnion, additionalProperties |-> <<"f">>] @@ ("$schema" :> <<"u">>)}

PlainKeys == [description |-> <<"d">>]

\* the schema trees of depth at most d below the root
RECURSIVE SchemaTrees(_)
SchemaTrees(d) ==
    {Obj(o) : o \in OwnKeys \cup {PlainKeys}}
    \cup
    (IF d = 0 THEN {}
     ELSE LET sub == SchemaTrees(d - 1)
          IN  {Obj(With(o, "properties", [x |-> c])) : o \in OwnKeys, c \in sub}
              \cup {Obj(With(PlainKeys, "properties", [x |-> c, y |-> UndefinedNode])) :
                      c \in sub}
              \cup {Obj(With(o, "items", c)) : o \in OwnKeys, c \in sub}
              \cup {Obj(With(With(PlainKeys, "properties", [x |-> c, y |-> Obj(o)]),
                             "items", c)) : o \in OwnKeys, c \in sub})

\* the schema the specification gives as its example
ExampleSchema ==
    Obj([type |-> TypeObject,
         properties |-> [x |-> Obj([type |-> TypeString])],
         additionalProperties |-> <<"f">>] @@ ("$schema" :> <<"u">>))

ResponseFormats ==
    {NoResponseFormat, ResponseFormat("text", UndefinedNode),
     ResponseFormat("json_schema", UndefinedNode),
     ResponseFormat("json_schema", ExampleSchema)}
    \cup {ResponseFormat("json_schema", t) : t \in SchemaTrees(MaxDepth)}

MaxSuffix == 2

ModelAlphabet == {"g", "-", "1"}

ModelStems ==
    {<<>>, FamilyPrefix, <<"G", "e", "m", "i", "n", "i">>,
     <<"g", "e", "m", "i", "n">>, <<"e", "m", "i", "n", "i">>,
     <<"g", "e", "m", "i", "n", "I">>, <<"x", "g", "e", "m", "i", "n", "i">>,
     <<"g", "p", "t">>, <<" ", "g", "e", "m", "i", "n", "i">>}

\* the names the tests probe supportsModel with
ExampleModels ==
    {<<"g", "p", "t", "-", "4">>,
     <<"c", "l", "a", "u", "d", "e", "-", "3", "-", "o", "p", "u", "s", "-",
       "2", "0", "2", "4", "0", "2", "2", "9">>,
     <<"g", "e", "m", "i", "n", "i", "-", "1", ".", "5", "-", "p", "r", "o">>,
     <<"g", "e", "m", "i", "n", "i", "-", "p", "r", "o">>}

\* supportsModel's argument: undefined, or a stem followed, preceded or
\* surrounded by up to MaxSuffix characters
ModelNames ==
    LET affixes == UNION {[1..n -> ModelAlphabet] : n \in 0..MaxSuffix}
    IN  {Undefined}
        \cup {Str(m) : m \in ExampleModels}
        \cup {Str(a \o stem \o b) : a \in {<<>>, <<"-">>}, stem \in ModelStems, b \in affixes}

\* what the remote call can reject with: an error that says nothing of the
\* key, and one that quotes the key in use (a diagnostic URL)
RemoteErrors(key) ==
    {NewError(<<"E">>), NewError(<<"k", "=">> \o key.str \o <<"&">>)}

NoResponse == [text |-> <<>>, usage |-> [present |-> FALSE, inputTokens |-> 0, outputTokens |-> 0]]

\* result.response: its text and its optional usageMetadata
RemoteResponses ==
    {[text |-> <<"o", "k">>, usageMetadata |-> u] :
        u \in {[present |-> FALSE, promptTokenCount |-> 0, candidatesTokenCount |-> 0],
               [present |-> TRUE, promptTokenCount |-> 1, candidatesTokenCount |-> 2]}}

\* ------------------------------------------------------------------------
\* State
\* ------------------------------------------------------------------------

VARIABLES
    build,            \* which copy of execute runs
    optApiKey,        \* options.apiKey
    envApiKey,        \* process.env.GEMINI_API_KEY
    messages,         \* request.messages
    pc,               \* where the call of execute is
    apiKey,           \* the local apiKey
    chatHistory,      \* the local chatHistory when the second loop ends
    lastUserMessage,  \* the local lastUserMessage when the second loop ends
    models,           \* the arguments of genAI.getGenerativeModel, per call
    chats,            \* the arguments of configuredModel.startChat, per call
    calls,            \* the outbound calls: generateContent and sendMessage
    thrown,           \* the error execute rejects with
    returned,         \* the ProviderResponse execute resolves with
    responseFormat,   \* request.responseFormat
    generationConfig, \* the local generationConfig given to getGenerativeModel
    model,            \* the argument of supportsModel
    supported         \* whether supportsModel was called, and what it returned

vars ==
    <<build, optApiKey, envApiKey, messages, pc, apiKey, chatHistory,
      lastUserMessage, models, chats, calls, thrown, returned,
      responseFormat, generationConfig, model, supported>>

inputs == <<build, optApiKey, envApiKey, messages, responseFormat>>

probe == <<model, supported>>

NoGenerationConfig ==
    [responseMimeType |-> "absent", hasResponseSchema |-> FALSE,
     responseSchema |-> UndefinedNode]

NotProbed == [called |-> FALSE, result |-> FALSE]

\* execute has not run and supportsModel has not been called
NothingDoneYet ==
    /\ pc = "start"
    /\ apiKey = Undefined
    /\ chatHistory = <<>>
    /\ lastUserMessage = <<>>
    /\ models = <<>>
    /\ chats = <<>>
    /\ calls = <<>>
    /\ thrown = NoError
    /\ returned = NoResponse
    /\ generationConfig = NoGenerationConfig
    /\ supported = NotProbed

Init ==
    /\ build \in Builds
    /\ optApiKey \in OptionKeys
    /\ envApiKey \in EnvKeys
    /\ messages \in Requests
    /\ responseFormat = NoResponseFormat
    /\ model = Undefined
    /\ NothingDoneYet

\* the requests that differ in their responseFormat only
InitSchema ==
    /\ build \in Builds
    /\ optApiKey \in {Undefined, Str(GoodKey), Str(WrongPrefixKey)}
    /\ envApiKey = Undefined
    /\ messages = <<Msg("user", TextContent(<<"H", "e", "l", "l", "o">>))>>
    /\ responseFormat \in ResponseFormats
    /\ model = Undefined
    /\ NothingDoneYet

\* the calls of supportsModel
InitSupports ==
    /\ build = "unguarded"
    /\ optApiKey = Undefined
    /\ envApiKey = Undefined
    /\ messages = <<>>
    /\ responseFormat = NoResponseFormat
    /\ model \in ModelNames
    /\ NothingDoneYet

\* ------------------------------------------------------------------------
\* execute, up to its first await
\* ------------------------------------------------------------------------

\* lines 82-83: no key in the options or the environment
ExecuteMissingKey ==
    /\ pc = "start"
    /\ MissingApiKey(ResolveApiKey(optApiKey, envApiKey))
    /\ apiKey' = ResolveApiKey(optApiKey, envApiKey)
    /\ thrown' = NewError(MissingKeyMessage(build))
    /\ pc' = "threwAtKeyCheck"
    /\ UNCHANGED <<inputs, chatHistory, lastUserMessage, models, chats, calls,
                   returned, generationConfig, probe>>

\* part_002 lines 125-129: the key does not pass redactor.validateKey
ExecuteInvalidKey ==
    /\ pc = "start"
    /\ build = "guarded"
    /\ ~MissingApiKey(ResolveApiKey(optApiKey, envApiKey))
    /\ ~validateKey(ResolveApiKey(optApiKey, envApiKey).str).valid
    /\ apiKey' = ResolveApiKey(optApiKey, envApiKey)
    /\ thrown' = NewError(InvalidKeyMessage)
    /\ pc' = "threwAtKeyCheck"
    /\ UNCHANGED <<inputs, chatHistory, lastUserMessage, models, chats, calls,
                   returned, generationConfig, probe>>

\* mutant of ExecuteDispatch: the final turn is popped off request.messages
ExecuteDispatch_PopsRequest ==
    /\ pc = "start"
    /\ ~MissingApiKey(ResolveApiKey(optApiKey, envApiKey))
    /\ build = "guarded" =>
          validateKey(ResolveApiKey(optApiKey, envApiKey).str).valid
    /\ apiKey' = ResolveApiKey(optApiKey, envApiKey)
    /\ models' = Append(models,
          [systemInstruction |->
              SystemInstructionOption(SystemInstruction(messages))])
    /\ chatHistory' = ChatHistory(messages)
    /\ lastUserMessage' = LastUserMessage(messages)
    /\ LET d == Dispatch(ChatHistory(messages), LastUserMessage(messages))
       IN  /\ chats' = chats \o d.chats
           /\ calls' = calls \o d.calls
    /\ messages' = IF Len(ChatHistory(messages)) > 1
                   THEN SubSeq(messages, 1, Len(messages) - 1)
                   ELSE messages
    /\ generationConfig' = GenerationConfig(responseFormat)
    /\ pc' = "awaiting"
    /\ UNCHANGED <<build, optApiKey, envApiKey, responseFormat, thrown,
                   returned, probe>>

\* lines 85-183: the client is configured, the history is built and the one
\* outbound call is made; execute then waits for it
ExecuteDispatch ==
    /\ pc = "start"
    /\ ~MissingApiKey(ResolveApiKey(optApiKey, envApiKey))
    /\ build = "guarded" =>
          validateKey(ResolveApiKey(optApiKey, envApiKey).str).valid
    /\ apiKey' = ResolveApiKey(optApiKey, envApiKey)
    /\ models' = Append(models,
          [systemInstruction |->
              SystemInstructionOption(SystemInstruction(messages))])
    /\ chatHistory' = ChatHistory(messages)
    /\ lastUserMessage' = LastUserMessage(messages)
    /\ LET d == Dispatch(ChatHistory(messages), LastUserMessage(messages))
       IN  /\ chats' = chats \o d.chats
           /\ calls' = calls \o d.calls
    /\ generationConfig' = GenerationConfig(responseFormat)
    /\ pc' = "awaiting"
    /\ UNCHANGED <<inputs, thrown, returned, probe>>

\* ------------------------------------------------------------------------
\* the outbound call settles
\* ------------------------------------------------------------------------

\* lines 185-197: the call resolves and the response is mapped
RemoteResolve ==
    /\ pc = "awaiting"
    /\ \E r \in RemoteResponses :
          returned' = [text |-> r.text,
                       usage |-> [present |-> r.usageMetadata.present,
                                  inputTokens |-> r.usageMetadata.promptTokenCount,
                                  outputTokens |-> r.usageMetadata.candidatesTokenCount]]
    /\ pc' = "returned"
    /\ UNCHANGED <<inputs, apiKey, chatHistory, lastUserMessage, models, chats,
                   calls, thrown, generationConfig, probe>>

\* src/src/index.ts lines 180-182: nothing catches a rejection of the call
RemoteRejectUncaught ==
    /\ pc = "awaiting"
    /\ build = "unguarded"
    /\ \E e \in RemoteErrors(apiKey) : thrown' = e
    /\ pc' = "threwAfterAwait"
    /\ UNCHANGED <<inputs, apiKey, chatHistory, lastUserMessage, models, chats,
                   calls, returned, generationConfig, probe>>

\* part_002 lines 245-249: the rejection is caught and a safe error thrown
RemoteRejectCaught ==
    /\ pc = "awaiting"
    /\ build = "guarded"
    /\ \E e \in RemoteErrors(apiKey), sanitizeStackTraces \in BOOLEAN :
          thrown' \in createSafeError(e, sanitizeStackTraces)
    /\ pc' = "threwAfterAwait"
    /\ UNCHANGED <<inputs, apiKey, chatHistory, lastUserMessage, models, chats,
                   calls, returned, generationConfig, probe>>

Next ==
    \/ ExecuteMissingKey
    \/ ExecuteInvalidKey
    \/ ExecuteDispatch
    \/ RemoteResolve
    \/ RemoteRejectUncaught
    \/ RemoteRejectCaught

Spec == Init /\ [][Next]_vars

\* execute on the requests that differ in their responseFormat
SpecSchema == InitSchema /\ [][Next]_vars

\* ------------------------------------------------------------------------
\* supportsModel
\* ------------------------------------------------------------------------

\* lines 70-73: the probe returns; it reads its argument and writes nothing.
\* It shares no state with execute, so its calls are explored on their own.
SupportsModelCall ==
    /\ ~supported.called
    /\ supported' = [called |-> TRUE, result |-> supportsModel(model)]
    /\ UNCHANGED <<inputs, model, pc, apiKey, chatHistory, lastUserMessage,
                   models, chats, calls, thrown, returned, generationConfig>>

NextSupports == SupportsModelCall

SpecSupports == InitSupports /\ [][NextSupports]_vars

\* ------------------------------------------------------------------------
\* Properties
\* ------------------------------------------------------------------------

\* execute has made its outbound call
Dispatched == pc \in {"awaiting", "returned", "threwAfterAwait"}

\* the messages that are turns, and the turn each one is to become
IsTurn(m) == m.role # "system" /\ m.role # "developer"

ExpectedTurns(msgs) ==
    LET t == SelectSeq(msgs, IsTurn)
    IN  [i \in 1..Len(t) |->
            [role |-> IF t[i].role = "assistant" THEN "model" ELSE "user",
             text |-> ContentText(t[i].content)]]

\* s holds a substring of the credential shape
HasKeyShape(s) == \E i \in 1..Len(s) : MatchesAt(s, i)

\* C1: with options.apiKey absent and GEMINI_API_KEY unset, execute fails
\* with 'Gemini API key is required' and no outbound call has been made.
C1_MissingCredentialBeforeAnyCall ==
    (pc # "start" /\ optApiKey = Undefined /\ envApiKey = Undefined) =>
        /\ pc = "threwAtKeyCheck"
        /\ IsPrefix(RequiredMessage, thrown.message)
        /\ calls = <<>>
        /\ chats = <<>>

C1_Witness ==
    /\ pc = "threwAtKeyCheck"
    /\ optApiKey = Undefined
    /\ envApiKey = Undefined
    /\ calls = <<>>

\* C2: a non-empty credential that is not of the key shape makes execute
\* fail with the invalid-credential error, with no outbound call attempted.
C2_InvalidCredentialRejected ==
    (pc # "start" /\ Truthy(apiKey) /\ ~validator(apiKey.str)) =>
        /\ pc = "threwAtKeyCheck"
        /\ thrown.message = InvalidKeyMessage
        /\ calls = <<>>

\* C3: when the outbound call rejects, the error execute throws holds no
\* credential-shaped substring, neither in its message nor in its stack.
C3_ThrownErrorIsRedacted ==
    pc = "threwAfterAwait" =>
        ~HasKeyShape(thrown.message) /\ ~HasKeyShape(thrown.stack)

C5_DispatchByTurnCount ==
    Dispatched =>
        LET turns == ExpectedTurns(messages)
            n == Len(turns)
        IN  /\ n > 1 =>
                /\ chats = <<[history |-> SubSeq(turns, 1, n - 1)]>>
                /\ calls = <<[method |-> "sendMessage", text |-> turns[n].text]>>
            /\ n <= 1 =>
                /\ chats = <<>>
                /\ Len(calls) = 1
                /\ calls[1].method = "generateContent"
            /\ messages = <<Msg("system", TextContent(<<"S">>)),
                            Msg("user", TextContent(<<"U", "1">>)),
                            Msg("assistant", TextContent(<<"A", "1">>)),
                            Msg("user", TextContent(<<"U", "2">>))>> =>
                /\ chats = <<[history |->
                                <<[role |-> "user", text |-> <<"U", "1">>],
                                  [role |-> "model", text |-> <<"A", "1">>]>>]>>
                /\ calls = <<[method |-> "sendMessage", text |-> <<"U", "2">>]>>

C5_Witness ==
    /\ pc = "awaiting"
    /\ Len(messages) = 4
    /\ messages[1].role = "system"
    /\ Len(chats) = 1
    /\ Len(chats[1].history) = 2
    /\ calls[1].text = <<"U", "2">>

\* C6: no step of execute changes request.messages, whatever the outcome.
C6_MessagesNeverMutated == [][messages' = messages]_vars

C6_Witness ==
    /\ pc \in {"returned", "threwAfterAwait"}
    /\ Len(chats) = 1
    /\ Len(messages) = Len(chats[1].history) + 1

\* C7: on the single-shot path the prompt is the content of the most recent
\* user message (stringified if not a string), and a single space when the
\* request has no user content; [user "Hello"] is sent single-shot as "Hello".
C7_SingleShotPrompt ==
    (Dispatched /\ calls[1].method = "generateContent") =>
        LET users == SelectSeq(messages, LAMBDA m : m.role = "user")
            last == IF users = <<>> THEN <<>>
                    ELSE ContentText(users[Len(users)].content)
        IN  /\ calls[1].text = IF last = <<>> THEN <<" ">> ELSE last
            /\ messages = <<Msg("user", TextContent(<<"H", "e", "l", "l", "o">>))>> =>
                  calls = <<[method |-> "generateContent",
                             text |-> <<"H", "e", "l", "l", "o">>]>>

C7_Witness ==
    /\ Dispatched
    /\ calls[1].method = "generateContent"
    /\ calls[1].text = <<"U", "1">>
    /\ Len(messages) = 3
    /\ messages[3].role = "user"

\* the contents of the system and developer messages, a blank line between
RECURSIVE JoinBlankLine(_)
JoinBlankLine(texts) ==
    IF texts = <<>> THEN <<>>
    ELSE IF Len(texts) = 1 THEN texts[1]
    ELSE texts[1] \o <<"\n", "\n">> \o JoinBlankLine(Tail(texts))

ExpectedPreamble(msgs) ==
    LET p == SelectSeq(msgs, LAMBDA m : m.role \in {"system", "developer"})
    IN  Trim(JoinBlankLine([i \in 1..Len(p) |-> ContentText(p[i].content)]))

\* C8: the client is configured with the trimmed concatenation of the system
\* and developer contents, and with no system instruction (undefined, not '')
\* when that preamble is empty.
C8_SystemInstructionOrNone ==
    Dispatched =>
        models = <<[systemInstruction |->
                      IF ExpectedPreamble(messages) = <<>> THEN Undefined
                      ELSE Str(ExpectedPreamble(messages))]>>

\* C9: the turn list holds one entry per message that is neither system nor
\* developer, in message order, with role model for assistant and user for
\* every other role, and the (stringified) content as text.
C9_TurnList ==
    Dispatched =>
        /\ chatHistory = ExpectedTurns(messages)
        /\ Len(chatHistory) =
              Cardinality({i \in 1..Len(messages) : IsTurn(messages[i])})

C9_Witness ==
    /\ Dispatched
    /\ Len(chatHistory) = 2
    /\ Len(messages) = 3
    /\ \E i \in 1..Len(messages) : messages[i].role = "tool"
    /\ \E i \in 1..Len(messages) : messages[i].role = "assistant"

\* C10: apiKey '' is treated as apiKey absent: the credential is then the
\* environment's; without one execute fails with 'Gemini API key is required'
\* and never with the invalid-credential error, and with one it is the
\* credential execute goes on with.
C10_EmptyKeyIsAbsent ==
    (pc # "start" /\ optApiKey \in {Undefined, Str(<<>>)}) =>
        /\ apiKey = envApiKey
        /\ ~Truthy(envApiKey) =>
              /\ pc = "threwAtKeyCheck"
              /\ IsPrefix(RequiredMessage, thrown.message)
              /\ thrown.message # InvalidKeyMessage
              /\ calls = <<>>
        /\ Truthy(envApiKey) => ~IsPrefix(RequiredMessage, thrown.message)

C10_Witness ==
    /\ pc = "threwAtKeyCheck"
    /\ optApiKey = Str(<<>>)
    /\ envApiKey = Undefined
    /\ IsPrefix(RequiredMessage, thrown.message)

\* out is the translation of the schema node in: at every node reached
\* through properties and items, a string type is upper-cased and any other
\* type kept, additionalProperties and $schema are gone, every other key is
\* unchanged and the property names are the same; undefined gives undefined
RECURSIVE Translated(_, _)
Translated(in, out) ==
    IF in.tag = "undefined" THEN out.tag = "undefined"
    ELSE /\ out.tag = "object"
         /\ DOMAIN out.fields =
               DOMAIN in.fields \ {"additionalProperties", "$schema"}
         /\ \A k \in DOMAIN out.fields :
               CASE k = "type" ->
                      IF in.fields[k].tag = "string"
                      THEN /\ out.fields[k].tag = "string"
                           /\ out.fields[k].str = toUpperCase(in.fields[k].str)
                      ELSE out.fields[k] = in.fields[k]
                 [] k = "properties" ->
                      /\ DOMAIN out.fields[k] = DOMAIN in.fields[k]
                      /\ \A n \in DOMAIN in.fields[k] :
                            Translated(in.fields[k][n], out.fields[k][n])
                 [] k = "items" -> Translated(in.fields[k], out.fields[k])
                 [] OTHER -> out.fields[k] = in.fields[k]

\* C11: when responseFormat.type is 'json_schema' the schema is translated
\* node by node: string types upper-cased, non-string types untouched, no
\* additionalProperties and no $schema key, other keys and the property names
\* kept, undefined to undefined; the specification's example schema becomes
\* {type: "OBJECT", properties: {x: {type: "STRING"}}}.
C11_SchemaTranslated ==
    (Dispatched /\ responseFormat.type = "json_schema") =>
        /\ generationConfig.responseMimeType = "application/json"
        /\ generationConfig.hasResponseSchema
        /\ Translated(responseFormat.schema, generationConfig.responseSchema)
        /\ responseFormat.schema = ExampleSchema =>
              generationConfig.responseSchema =
                 Obj([type |-> TextContent(<<"O", "B", "J", "E", "C", "T">>),
                      properties |->
                         [x |-> Obj([type |->
                                   TextContent(<<"S", "T", "R", "I", "N", "G">>)])]])

C11_Witness ==
    /\ Dispatched
    /\ responseFormat.type = "json_schema"
    /\ responseFormat.schema.tag = "object"
    /\ "items" \in DOMAIN responseFormat.schema.fields
    /\ "properties" \in DOMAIN responseFormat.schema.fields
    /\ "$schema" \in DOMAIN responseFormat.schema.fields["items"].fields
    /\ "$schema" \notin DOMAIN generationConfig.responseSchema.fields["items"].fields
    /\ responseFormat.schema.fields["properties"]["x"].fields["type"] = TypeUnion

\* C12: supportsModel(m) is true exactly when m is a non-empty string that
\* starts with 'gemini' (case-sensitive, at position 0); false for '' and
\* undefined, for 'gpt-4' and 'claude-3-opus-20240229', true for
\* 'gemini-1.5-pro' and 'gemini-pro'; and the call changes nothing else.
C12_SupportsModel ==
    supported.called =>
        /\ supported.result =
              (/\ model.tag = "string"
               /\ Len(model.str) >= 6
               /\ <<model.str[1], model.str[2], model.str[3], model.str[4],
                    model.str[5], model.str[6]>> = <<"g", "e", "m", "i", "n", "i">>)
        /\ model \in {Undefined, Str(<<>>), Str(<<"g", "p", "t", "-", "4">>),
                      Str(<<"c", "l", "a", "u", "d", "e", "-", "3", "-", "o", "p",
                            "u", "s", "-", "2", "0", "2", "4", "0", "2", "2", "9">>)}
              => ~supported.result
        /\ model \in {Str(<<"g", "e", "m", "i", "n", "i", "-", "1", ".", "5", "-",
                            "p", "r", "o">>),
                      Str(<<"g", "e", "m", "i", "n", "i", "-", "p", "r", "o">>)}
              => supported.result
        /\ pc = "start"
        /\ <<apiKey, chatHistory, lastUserMessage, models, chats, calls>> =
              <<Undefined, <<>>, <<>>, <<>>, <<>>, <<>>>>
        /\ thrown = NoError
        /\ returned = NoResponse

C12_Witness ==
    /\ supported.called
    /\ supported.result
    /\ model = Str(<<"g", "e", "m", "i", "n", "i", "-", "1", ".", "5", "-", "p",
                     "r", "o">>)

\* C13: the text handed to the external client in the outbound call, the
\* prompt of generateContent or the message of sendMessage, is never empty.
C13_OutboundTextNeverEmpty ==
    Dispatched => \A i \in 1..Len(calls) : Len(calls[i].text) >= 1

====
